---- MODULE Spec2Model ----
(***************************************************************************)
(* A model of the Chip8 virtual machine of src/src/lib.rs: the machine     *)
(* state (struct Chip8), Chip8::default, Chip8::load, Chip8::emulate_cycle *)
(* (fetch_opcode, execute_opcode, update_timers) and the two writes the    *)
(* host of src/src/main.rs makes to the machine's public fields (the       *)
(* keypad and the redraw flag).                                            *)
(*                                                                         *)
(* A Rust panic is modelled by the variable panic: it names the kind of    *)
(* the panic, the fields keep what the code had written before it, and no  *)
(* operation runs afterwards. Integer overflow panics in a build with      *)
(* overflow checks and wraps otherwise; overflow_checks is the build's     *)
(* choice, made once.                                                      *)
(***************************************************************************)
EXTENDS Integers, Naturals, Sequences, FiniteSets, TLC

VARIABLES
    draw_flag,        \* pub draw_flag: bool
    opcode,           \* opcode: u16
    memory,           \* memory: [u8; NMEM], the zero bytes left out (see MemRead)
    reg,              \* reg: [u8; NREG]
    index,            \* index: u16
    pc,               \* pc: u16
    graphics,         \* pub graphics: [bool; NPIXELS], as the set of the lit pixels
    timer_delay,      \* timer_delay: u8
    timer_sound,      \* timer_sound: u8
    stack,            \* stack: [u16; 16]
    sp,               \* sp: u16
    key,              \* pub key: [u8; 16]
    make_sound,       \* pub make_sound: bool
    panic,            \* "none", or the kind of the panic that ended the program
    overflow_checks,  \* whether the build panics on integer overflow
    cycles,           \* number of emulate_cycle calls made so far
    loads,            \* number of load calls made so far
    current_time      \* main: current_time, in milliseconds since the start

vars == <<draw_flag, opcode, memory, reg, index, pc, graphics, timer_delay,
          timer_sound, stack, sp, key, make_sound, panic, overflow_checks,
          cycles, loads, current_time>>

----------------------------------------------------------------------------
(* Program constants.                                                      *)

NMEM == 4096
NREG == 16
WIDTH == 64
HEIGHT == 32
NPIXELS == WIDTH * HEIGHT
STACK_SIZE == 16
NKEYS == 16
PROGRAM_START == 512
U16 == 65536
U8 == 256

FONTSET ==
    << 240, 144, 144, 144, 240,
        32,  96,  32,  32, 112,
       240,  16, 240, 128, 240,
       240,  16, 240,  16, 240,
       144, 144, 240,  16,  16,
       240, 128, 240,  16, 240,
       240, 128, 240, 144, 240,
       240,  16,  32,  64,  64,
       240, 144, 240, 144, 240,
       240, 144, 240,  16, 240,
       240, 144, 240, 144, 144,
       224, 144, 224, 144, 224,
       240, 128, 128, 128, 240,
       224, 144, 144, 144, 224,
       240, 128, 240, 128, 240,
       240, 128, 240, 128, 128 >>

----------------------------------------------------------------------------
(* Bit operations on machine words.                                        *)

RECURSIVE BitAnd(_, _)
BitAnd(a, b) ==
    IF a = 0 \/ b = 0 THEN 0
    ELSE (a % 2) * (b % 2) + 2 * BitAnd(a \div 2, b \div 2)

RECURSIVE BitOr(_, _)
BitOr(a, b) ==
    IF a = 0 THEN b
    ELSE IF b = 0 THEN a
    ELSE (IF a % 2 = 1 \/ b % 2 = 1 THEN 1 ELSE 0) + 2 * BitOr(a \div 2, b \div 2)

RECURSIVE BitXor(_, _)
BitXor(a, b) ==
    IF a = 0 THEN b
    ELSE IF b = 0 THEN a
    ELSE (IF a % 2 = b % 2 THEN 0 ELSE 1) + 2 * BitXor(a \div 2, b \div 2)

Shr(a, n) == a \div (2 ^ n)

\* BitVec::from_bytes(&[byte])[j]: bit 0 is the most significant bit.
\* BitVecBit numbering the bits from the least significant one
BitVecBitLsbFirst(byte, j) == (byte \div (2 ^ j)) % 2 = 1

BitVecBit(byte, j) == (byte \div (2 ^ (7 - j))) % 2 = 1

\* The operand fields of an opcode.
OpX(op) == Shr(BitAnd(op, \h0F00), 8)
OpY(op) == Shr(BitAnd(op, \h00F0), 4)
OpN(op) == BitAnd(op, \h000F)
OpNN(op) == BitAnd(op, \h00FF)
OpNNN(op) == BitAnd(op, \h0FFF)

----------------------------------------------------------------------------
(* The two large arrays are kept in a compact form that loses nothing.     *)
(* memory: [u8; NMEM] is the function from the addresses that hold a       *)
(* non-zero byte to that byte; every other address below NMEM holds 0.     *)
(* graphics: [bool; NPIXELS] is the set of the addresses of the lit        *)
(* pixels. Bounds are checked where the code indexes the arrays.           *)

\* m[a], for a < NMEM
MemRead(m, a) == IF a \in DOMAIN m THEN m[a] ELSE 0

\* m[a] = v, for a < NMEM
MemWrite(m, a, v) ==
    [b \in (IF v = 0 THEN DOMAIN m \ {a} ELSE DOMAIN m \cup {a}) |->
        IF b = a THEN v ELSE m[b]]

\* g[a], for a < NPIXELS
PixelRead(g, a) == a \in g

\* g[a] ^= true, for a < NPIXELS
PixelToggle(g, a) == IF a \in g THEN g \ {a} ELSE g \cup {a}

----------------------------------------------------------------------------
(* The machine as a record, so that the steps of a cycle compose.          *)

Self ==
    [draw_flag |-> draw_flag, opcode |-> opcode, memory |-> memory,
     reg |-> reg, index |-> index, pc |-> pc, graphics |-> graphics,
     timer_delay |-> timer_delay, timer_sound |-> timer_sound,
     stack |-> stack, sp |-> sp, key |-> key, make_sound |-> make_sound,
     panic |-> panic]

Become(c) ==
    /\ draw_flag' = c.draw_flag
    /\ opcode' = c.opcode
    /\ memory' = c.memory
    /\ reg' = c.reg
    /\ index' = c.index
    /\ pc' = c.pc
    /\ graphics' = c.graphics
    /\ timer_delay' = c.timer_delay
    /\ timer_sound' = c.timer_sound
    /\ stack' = c.stack
    /\ sp' = c.sp
    /\ key' = c.key
    /\ make_sound' = c.make_sound
    /\ panic' = c.panic

\* The machine's fields are those of the record c.
Is(c) == Self = c

Panic(c, kind) == [c EXCEPT !.panic = kind]

\* Chip8::default
Default ==
    [draw_flag |-> TRUE,
     opcode |-> 0,
     memory |-> [a \in {i \in 0..(Len(FONTSET) - 1) : FONTSET[i + 1] # 0} |->
                   FONTSET[a + 1]],
     reg |-> [r \in 0..(NREG - 1) |-> 0],
     index |-> 0,
     pc |-> PROGRAM_START,
     graphics |-> {},
     timer_delay |-> 0,
     timer_sound |-> 0,
     stack |-> [s \in 0..(STACK_SIZE - 1) |-> 0],
     sp |-> 0,
     key |-> [k \in 0..(NKEYS - 1) |-> 0],
     make_sound |-> FALSE,
     panic |-> "none"]

----------------------------------------------------------------------------
(* Chip8::load: copies the bytes of game to memory[0x200 ..]. A byte that  *)
(* would land at or past NMEM panics (index out of bounds) after the bytes *)
(* before it were written.                                                 *)

\* load copying the program to the start of memory instead of 0x200
loadAtZero(c, game) ==
    [c EXCEPT !.memory =
        [a \in (DOMAIN c.memory \ (0..(Len(game) - 1))) \cup
                {b \in 0..(Len(game) - 1) : game[b + 1] # 0} |->
           IF a < Len(game) THEN game[a + 1] ELSE c.memory[a]]]

\* load that also takes PC back to the start of the program
loadResetPc(c, game) ==
    LET fits == IF Len(game) <= NMEM - PROGRAM_START
                THEN Len(game) ELSE NMEM - PROGRAM_START
        region == PROGRAM_START..(PROGRAM_START + fits - 1)
        written == [c EXCEPT !.pc = PROGRAM_START, !.memory =
                      [a \in (DOMAIN c.memory \ region) \cup
                              {b \in region : game[b - PROGRAM_START + 1] # 0} |->
                         IF a \in region
                         THEN game[a - PROGRAM_START + 1]
                         ELSE c.memory[a]]]
    IN  IF Len(game) > NMEM - PROGRAM_START
        THEN Panic(written, "index_out_of_bounds")
        ELSE written

\* load that copies the bytes that fit and returns
loadTruncating(c, game) ==
    LET fits == IF Len(game) <= NMEM - PROGRAM_START
                THEN Len(game) ELSE NMEM - PROGRAM_START
        region == PROGRAM_START..(PROGRAM_START + fits - 1)
    IN  [c EXCEPT !.memory =
           [a \in (DOMAIN c.memory \ region) \cup
                   {b \in region : game[b - PROGRAM_START + 1] # 0} |->
              IF a \in region
              THEN game[a - PROGRAM_START + 1]
              ELSE c.memory[a]]]

load(c, game) ==
    LET fits == IF Len(game) <= NMEM - PROGRAM_START
                THEN Len(game) ELSE NMEM - PROGRAM_START
        region == PROGRAM_START..(PROGRAM_START + fits - 1)
        written == [c EXCEPT !.memory =
                      [a \in (DOMAIN c.memory \ region) \cup
                              {b \in region : game[b - PROGRAM_START + 1] # 0} |->
                         IF a \in region
                         THEN game[a - PROGRAM_START + 1]
                         ELSE c.memory[a]]]
    IN  IF Len(game) > NMEM - PROGRAM_START
        THEN Panic(written, "index_out_of_bounds")
        ELSE written

----------------------------------------------------------------------------
(* Chip8::fetch_opcode                                                     *)

fetch_opcode(c) ==
    IF c.pc >= NMEM THEN Panic(c, "index_out_of_bounds")
    ELSE IF c.pc + 1 >= U16 /\ overflow_checks THEN Panic(c, "overflow")
    ELSE IF (c.pc + 1) % U16 >= NMEM THEN Panic(c, "index_out_of_bounds")
    ELSE [c EXCEPT !.opcode =
            BitOr(MemRead(c.memory, c.pc) * 256,
                  MemRead(c.memory, (c.pc + 1) % U16))]

----------------------------------------------------------------------------
(* Chip8::execute_opcode, one operator per arm of the match.               *)

\* self.pc += 2 (u16)
PcAdd2(c) ==
    IF c.pc + 2 >= U16 /\ overflow_checks THEN Panic(c, "overflow")
    ELSE [c EXCEPT !.pc = (c.pc + 2) % U16]

\* if cond { self.pc += 2; } self.pc += 2;
SkipIf(c, cond) ==
    LET c1 == IF cond THEN PcAdd2(c) ELSE c
    IN  IF c1.panic # "none" THEN c1 ELSE PcAdd2(c1)

BadOpcode(c) == Panic(c, "bad_opcode")

\* 00E0 that clears the screen and leaves the redraw flag as it was
Op00E0NoRedraw(c) == PcAdd2([c EXCEPT !.graphics = {}])

\* 0x00E0: Clears the screen
Op00E0(c) ==
    PcAdd2([c EXCEPT !.graphics = {},
                     !.draw_flag = TRUE])

\* What the panic of an undecodable opcode reports:
\* panic!("Opcode {:#X} is bad", self.opcode)
BadOpcodeMessage(c) == [opcode |-> c.opcode]

\* 0x00EE: Return from subroutine
Op00EE(c) ==
    IF c.sp = 0 /\ overflow_checks THEN Panic(c, "overflow")
    ELSE LET c1 == [c EXCEPT !.sp = (c.sp - 1) % U16]
         IN  IF c1.sp >= STACK_SIZE THEN Panic(c1, "index_out_of_bounds")
             ELSE PcAdd2([c1 EXCEPT !.pc = c1.stack[c1.sp]])

\* 0x1NNN: Jump to address NNN
Op1NNN(c) == [c EXCEPT !.pc = OpNNN(c.opcode)]

\* Op2NNN pushing the address of the next instruction instead of its own
Op2NNNPushNext(c) ==
    IF c.sp >= STACK_SIZE THEN Panic(c, "index_out_of_bounds")
    ELSE [c EXCEPT !.stack[c.sp] = c.pc + 2, !.sp = c.sp + 1,
                   !.pc = OpNNN(c.opcode)]

\* 0x2NNN: Call subroutine at NNN
Op2NNN(c) ==
    IF c.sp >= STACK_SIZE THEN Panic(c, "index_out_of_bounds")
    ELSE LET c1 == [c EXCEPT !.stack[c.sp] = c.pc]
         IN  IF c1.sp + 1 >= U16 /\ overflow_checks THEN Panic(c1, "overflow")
             ELSE [c1 EXCEPT !.sp = (c1.sp + 1) % U16, !.pc = OpNNN(c.opcode)]

\* 0x3XNN: Skip next instruction if regX equals NN
Op3XNN(c) == SkipIf(c, c.reg[OpX(c.opcode)] = OpNN(c.opcode))

\* Op4XNN skipping when regX equals NN
Op4XNNOnEqual(c) == SkipIf(c, c.reg[OpX(c.opcode)] = OpNN(c.opcode))

\* 0x4XNN: Skip next instruction if regX does not equal NN
Op4XNN(c) == SkipIf(c, c.reg[OpX(c.opcode)] # OpNN(c.opcode))

\* 0x5XY0: Skip next instruction if regX equals regY (any low nibble)
Op5XY0(c) == SkipIf(c, c.reg[OpX(c.opcode)] = c.reg[OpY(c.opcode)])

\* Op6XNN without its self.pc += 2
Op6XNNNoAdvance(c) == [c EXCEPT !.reg[OpX(c.opcode)] = OpNN(c.opcode)]

\* 0x6XNN: Set regX to NN
Op6XNN(c) == PcAdd2([c EXCEPT !.reg[OpX(c.opcode)] = OpNN(c.opcode)])

\* Op7XNN setting regF to the carry of the addition
Op7XNNWithCarry(c) ==
    LET sum == c.reg[OpX(c.opcode)] + OpNN(c.opcode)
        c1 == [c EXCEPT !.reg[15] = IF sum >= U8 THEN 1 ELSE 0]
    IN  PcAdd2([c1 EXCEPT !.reg[OpX(c.opcode)] = sum % U8])

\* 0x7XNN: Add NN to regX (Wrapping)
Op7XNN(c) ==
    PcAdd2([c EXCEPT !.reg[OpX(c.opcode)] =
              (c.reg[OpX(c.opcode)] + OpNN(c.opcode)) % U8])

\* 0x8XY0: Set regX to regY
Op8XY0(c) == PcAdd2([c EXCEPT !.reg[OpX(c.opcode)] = c.reg[OpY(c.opcode)]])

\* 0x8XY1: Set regX to regX | regY
Op8XY1(c) ==
    PcAdd2([c EXCEPT !.reg[OpX(c.opcode)] =
              BitOr(c.reg[OpX(c.opcode)], c.reg[OpY(c.opcode)])])

\* 0x8XY2: Set regX to regX & regY
Op8XY2(c) ==
    PcAdd2([c EXCEPT !.reg[OpX(c.opcode)] =
              BitAnd(c.reg[OpX(c.opcode)], c.reg[OpY(c.opcode)])])

\* 0x8XY3: Set regX to regX ^ regY
Op8XY3(c) ==
    PcAdd2([c EXCEPT !.reg[OpX(c.opcode)] =
              BitXor(c.reg[OpX(c.opcode)], c.reg[OpY(c.opcode)])])

\* 0x8XY4: Add regY to regX, set carry if needed. The flag is written
\* first; the operands are read after it.
Op8XY4(c) ==
    LET x == OpX(c.opcode)
        y == OpY(c.opcode)
        c1 == [c EXCEPT !.reg[15] = IF c.reg[y] > 255 - c.reg[x] THEN 1 ELSE 0]
    IN  PcAdd2([c1 EXCEPT !.reg[x] = (c1.reg[x] + c1.reg[y]) % U8])

\* 0x8XY5: regX -= regY, regF = 0 if borrow, else 1
Op8XY5(c) ==
    LET x == OpX(c.opcode)
        y == OpY(c.opcode)
        c1 == [c EXCEPT !.reg[15] = IF c.reg[y] > c.reg[x] THEN 0 ELSE 1]
    IN  PcAdd2([c1 EXCEPT !.reg[x] = (c1.reg[x] - c1.reg[y]) % U8])

\* Op8XY6 shifting regY into regX
Op8XY6FromY(c) ==
    LET x == OpX(c.opcode)
        y == OpY(c.opcode)
        c1 == [c EXCEPT !.reg[15] = BitAnd(c.reg[y], 1)]
    IN  PcAdd2([c1 EXCEPT !.reg[x] = Shr(c1.reg[y], 1)])

\* 0x8X_6: Shifts regX right by one, setting regF to lsb of regX before
Op8XY6(c) ==
    LET x == OpX(c.opcode)
        c1 == [c EXCEPT !.reg[15] = BitAnd(c.reg[x], 1)]
    IN  PcAdd2([c1 EXCEPT !.reg[x] = Shr(c1.reg[x], 1)])

\* 0x8XY7: regX = regY - regX, regF = 0 if borrow, else 1
Op8XY7(c) ==
    LET x == OpX(c.opcode)
        y == OpY(c.opcode)
        c1 == [c EXCEPT !.reg[15] = IF c.reg[x] > c.reg[y] THEN 0 ELSE 1]
    IN  PcAdd2([c1 EXCEPT !.reg[x] = (c1.reg[y] - c1.reg[x]) % U8])

\* 0x8X_E: Shifts regX left by one, setting regF to msb of regX before
Op8XYE(c) ==
    LET x == OpX(c.opcode)
        c1 == [c EXCEPT !.reg[15] = Shr(BitAnd(c.reg[x], \h80), 7)]
    IN  PcAdd2([c1 EXCEPT !.reg[x] = (c1.reg[x] * 2) % U8])

\* 0x9XY0: Skip next instruction if regX does not equal regY (any low nibble)
Op9XY0(c) == SkipIf(c, c.reg[OpX(c.opcode)] # c.reg[OpY(c.opcode)])

\* 0xANNN: Sets I to the address NNN
OpANNN(c) == PcAdd2([c EXCEPT !.index = OpNNN(c.opcode)])

\* OpBNNN adding the 2 every other instruction adds
OpBNNNAdvance(c) ==
    [c EXCEPT !.pc = (OpNNN(c.opcode) + c.reg[0] + 2) % U16]

\* 0xBNNN: Jump to address NNN + reg0
OpBNNN(c) ==
    IF OpNNN(c.opcode) + c.reg[0] >= U16 /\ overflow_checks
    THEN Panic(c, "overflow")
    ELSE [c EXCEPT !.pc = (OpNNN(c.opcode) + c.reg[0]) % U16]

\* rand::thread_rng().gen_range(0, 255): the upper end is excluded
RandRange == 0..254

\* 0xCXNN: regX = random number & NN
OpCXNN(c, r) == PcAdd2([c EXCEPT !.reg[OpX(c.opcode)] = BitAnd(OpNN(c.opcode), r)])

\* 0xDXYN, inner loop: for j in 0..8, the bits of one sprite row. The
\* eight pixels are distinct, so the loop toggles the set of the pixels it
\* hits, and sets regF if one of them was lit.
\* DrawRow setting the sprite's pixels instead of toggling them
DrawRowSetsPixels(c, byte, x, y_s) ==
    LET hit == { j \in 0..7 :
                   /\ 0 <= x + j /\ x + j < WIDTH
                   /\ 0 <= y_s /\ y_s < HEIGHT
                   /\ BitVecBit(byte, j) }
        addresses == { (WIDTH * y_s) + (x + j) : j \in hit }
    IN  [c EXCEPT
           !.reg[15] = IF \E a \in addresses : PixelRead(c.graphics, a)
                       THEN 1 ELSE @,
           !.graphics = @ \cup addresses]

\* DrawRow wrapping the coordinates around the screen instead of clipping
DrawRowWrapping(c, byte, x, y_s) ==
    LET hit == { j \in 0..7 : BitVecBit(byte, j) }
        addresses == { (WIDTH * (y_s % HEIGHT)) + ((x + j) % WIDTH) : j \in hit }
    IN  [c EXCEPT
           !.reg[15] = IF \E a \in addresses : PixelRead(c.graphics, a)
                       THEN 1 ELSE @,
           !.graphics = (@ \ addresses) \cup (addresses \ @)]

DrawRow(c, byte, x, y_s) ==
    LET hit == { j \in 0..7 :
                   /\ 0 <= x + j /\ x + j < WIDTH
                   /\ 0 <= y_s /\ y_s < HEIGHT
                   /\ BitVecBit(byte, j) }
        addresses == { (WIDTH * y_s) + (x + j) : j \in hit }
    IN  [c EXCEPT
           !.reg[15] = IF \E a \in addresses : PixelRead(c.graphics, a)
                       THEN 1 ELSE @,
           !.graphics = (@ \ addresses) \cup (addresses \ @)]

\* 0xDXYN, outer loop: for i in start..(start+n), reading memory[i]
RECURSIVE DrawRows(_, _, _, _, _, _)
DrawRows(c, x, y, start, i, end) ==
    IF i >= end THEN c
    ELSE IF i >= NMEM THEN Panic(c, "index_out_of_bounds")
    ELSE DrawRows(DrawRow(c, MemRead(c.memory, i), x, y + (i - start)),
                  x, y, start, i + 1, end)

\* DXYN that raises the redraw flag only when it changed a pixel
OpDXYNFlagOnChange(c) ==
    LET x == c.reg[OpX(c.opcode)]
        y == c.reg[OpY(c.opcode)]
        n == OpN(c.opcode)
        start == c.index
        c0 == [c EXCEPT !.reg[15] = 0]
    IN  IF start + n >= U16 /\ overflow_checks THEN Panic(c0, "overflow")
        ELSE LET c1 == DrawRows(c0, x, y, start, start, (start + n) % U16)
             IN  IF c1.panic # "none" THEN c1
                 ELSE PcAdd2([c1 EXCEPT
                         !.draw_flag = c.draw_flag \/ c1.graphics # c.graphics])

\* 0xDXYN: Draw sprite at regX,regY with N bytes of data, start at index
OpDXYN(c) ==
    LET x == c.reg[OpX(c.opcode)]
        y == c.reg[OpY(c.opcode)]
        n == OpN(c.opcode)
        start == c.index
        c0 == [c EXCEPT !.reg[15] = 0]
    IN  IF start + n >= U16 /\ overflow_checks THEN Panic(c0, "overflow")
        ELSE LET c1 == DrawRows(c0, x, y, start, start, (start + n) % U16)
             IN  IF c1.panic # "none" THEN c1
                 ELSE PcAdd2([c1 EXCEPT !.draw_flag = TRUE])

\* 0xEX9E: Skips next instruction if key stored in regX is pressed
OpEX9E(c) ==
    LET k == c.reg[OpX(c.opcode)]
    IN  IF k >= NKEYS THEN Panic(c, "index_out_of_bounds")
        ELSE SkipIf(c, c.key[k] # 0)

\* OpEXA1 skipping when the key is pressed
OpEXA1OnPressed(c) ==
    LET k == c.reg[OpX(c.opcode)]
    IN  IF k >= NKEYS THEN Panic(c, "index_out_of_bounds")
        ELSE SkipIf(c, c.key[k] # 0)

\* 0xEXA1: Skips next instruction if key stored in regX is not pressed
OpEXA1(c) ==
    LET k == c.reg[OpX(c.opcode)]
    IN  IF k >= NKEYS THEN Panic(c, "index_out_of_bounds")
        ELSE SkipIf(c, c.key[k] = 0)

\* 0xFX07: Sets regX to the value of the delay timer
OpFX07(c) == PcAdd2([c EXCEPT !.reg[OpX(c.opcode)] = c.timer_delay])

\* The upper end, excluded, of the key scan of 0xFX0A: for k in 0..0xF
KEY_SCAN_END == 15

\* 0xFX0A: the scan for k in k0..KEY_SCAN_END, stopping at the first pressed key
RECURSIVE KeyScan(_, _, _)
KeyScan(c, x, k) ==
    IF k >= KEY_SCAN_END THEN c
    ELSE IF c.key[k] # 0 THEN PcAdd2([c EXCEPT !.reg[x] = k])
    ELSE KeyScan(c, x, k + 1)

\* FX0A that does not wait: without a key it goes on to the next instruction
OpFX0ANoWait(c) ==
    LET c1 == KeyScan(c, OpX(c.opcode), 0)
    IN  IF c1.pc = c.pc THEN PcAdd2(c) ELSE c1

\* 0xFX0A: Wait for a keypress, halting operation, store in regX
OpFX0A(c) == KeyScan(c, OpX(c.opcode), 0)

\* 0xFX15: Sets delay timer to regX
OpFX15(c) == PcAdd2([c EXCEPT !.timer_delay = c.reg[OpX(c.opcode)]])

\* 0xFX18: Sets sound timer to regX
OpFX18(c) == PcAdd2([c EXCEPT !.timer_sound = c.reg[OpX(c.opcode)]])

\* 0xFX1E: Add regX to index (u16)
OpFX1E(c) ==
    LET sum == c.index + c.reg[OpX(c.opcode)]
    IN  IF sum >= U16 /\ overflow_checks THEN Panic(c, "overflow")
        ELSE PcAdd2([c EXCEPT !.index = sum % U16])

\* 0xFX29: Sets index to location of character in regX
OpFX29(c) == PcAdd2([c EXCEPT !.index = 5 * c.reg[OpX(c.opcode)]])

\* FX33 that writes the digits in the opposite order, units first
OpFX33UnitsFirst(c) ==
    LET v == c.reg[OpX(c.opcode)]
        i == c.index
    IN  IF i + 2 >= NMEM THEN Panic(c, "index_out_of_bounds")
        ELSE PcAdd2([c EXCEPT !.memory =
                        MemWrite(MemWrite(MemWrite(@, i, (v % 100) % 10),
                                          i + 1, (v \div 10) % 10),
                                 i + 2, v \div 100)])

\* 0xFX33: Store binary coded decimal of regX; three writes in turn, each
\* bounds-checked (and index + 1, index + 2 are u16 sums)
OpFX33(c) ==
    LET v == c.reg[OpX(c.opcode)]
        i == c.index
    IN  IF i >= NMEM THEN Panic(c, "index_out_of_bounds")
        ELSE LET c1 == [c EXCEPT !.memory = MemWrite(@, i, v \div 100)]
             IN  IF i + 1 >= NMEM THEN Panic(c1, "index_out_of_bounds")
                 ELSE LET c2 == [c1 EXCEPT !.memory =
                                       MemWrite(@, i + 1, (v \div 10) % 10)]
                      IN  IF i + 2 >= NMEM THEN Panic(c2, "index_out_of_bounds")
                          ELSE PcAdd2([c2 EXCEPT !.memory =
                                         MemWrite(@, i + 2, (v % 100) % 10)])

\* 0xFX55, the loop: for i in i0..(x+1) { memory[index + i] = reg[i] }
RECURSIVE StoreRegs(_, _, _)
StoreRegs(c, x, i) ==
    IF i >= x + 1 THEN c
    ELSE IF c.index + i >= NMEM THEN Panic(c, "index_out_of_bounds")
    ELSE StoreRegs([c EXCEPT !.memory = MemWrite(@, c.index + i, c.reg[i])],
                   x, i + 1)

\* 0xFX55: Stores reg0 through regX (inclusive) in memory starting at index
OpFX55(c) ==
    LET c1 == StoreRegs(c, OpX(c.opcode), 0)
    IN  IF c1.panic # "none" THEN c1 ELSE PcAdd2(c1)

\* 0xFX65, the loop: for i in i0..(x+1) { reg[i] = memory[index + i] }
RECURSIVE FillRegs(_, _, _)
FillRegs(c, x, i) ==
    IF i >= x + 1 THEN c
    ELSE IF c.index + i >= NMEM THEN Panic(c, "index_out_of_bounds")
    ELSE FillRegs([c EXCEPT !.reg[i] = MemRead(c.memory, c.index + i)], x, i + 1)

\* FX65 that leaves index behind the last byte it read
OpFX65AdvancesIndex(c) ==
    LET c1 == FillRegs(c, OpX(c.opcode), 0)
    IN  IF c1.panic # "none" THEN c1
        ELSE PcAdd2([c1 EXCEPT !.index = (@ + OpX(c.opcode) + 1) % U16])

\* 0xFX65: Fills reg0 through regX (inclusive) from memory starting at index
OpFX65(c) ==
    LET c1 == FillRegs(c, OpX(c.opcode), 0)
    IN  IF c1.panic # "none" THEN c1 ELSE PcAdd2(c1)

\* match self.opcode & 0xF000 { 0x0000 => match self.opcode { .. } }
Family0(c) ==
    CASE c.opcode = \h00E0 -> Op00E0(c)
      [] c.opcode = \h00EE -> Op00EE(c)
      [] OTHER -> BadOpcode(c)

\* 0x8000 => match self.opcode & 0x000F { .. }
Family8(c) ==
    LET low == BitAnd(c.opcode, \h000F)
    IN  CASE low = 0 -> Op8XY0(c)
          [] low = 1 -> Op8XY1(c)
          [] low = 2 -> Op8XY2(c)
          [] low = 3 -> Op8XY3(c)
          [] low = 4 -> Op8XY4(c)
          [] low = 5 -> Op8XY5(c)
          [] low = 6 -> Op8XY6(c)
          [] low = 7 -> Op8XY7(c)
          [] low = \hE -> Op8XYE(c)
          [] OTHER -> BadOpcode(c)

\* 0xE000 => match self.opcode & 0x00FF { .. }
FamilyE(c) ==
    LET low == BitAnd(c.opcode, \h00FF)
    IN  CASE low = \h9E -> OpEX9E(c)
          [] low = \hA1 -> OpEXA1(c)
          [] OTHER -> BadOpcode(c)

\* 0xF000 => match self.opcode & 0x00FF { .. }
FamilyF(c) ==
    LET low == BitAnd(c.opcode, \h00FF)
    IN  CASE low = \h07 -> OpFX07(c)
          [] low = \h0A -> OpFX0A(c)
          [] low = \h15 -> OpFX15(c)
          [] low = \h18 -> OpFX18(c)
          [] low = \h1E -> OpFX1E(c)
          [] low = \h29 -> OpFX29(c)
          [] low = \h33 -> OpFX33(c)
          [] low = \h55 -> OpFX55(c)
          [] low = \h65 -> OpFX65(c)
          [] OTHER -> BadOpcode(c)

\* Chip8::execute_opcode; r is the number the random generator returns,
\* which only 0xCXNN asks for.
execute_opcode(c, r) ==
    LET family == BitAnd(c.opcode, \hF000)
    IN  CASE family = \h0000 -> Family0(c)
          [] family = \h1000 -> Op1NNN(c)
          [] family = \h2000 -> Op2NNN(c)
          [] family = \h3000 -> Op3XNN(c)
          [] family = \h4000 -> Op4XNN(c)
          [] family = \h5000 -> Op5XY0(c)
          [] family = \h6000 -> Op6XNN(c)
          [] family = \h7000 -> Op7XNN(c)
          [] family = \h8000 -> Family8(c)
          [] family = \h9000 -> Op9XY0(c)
          [] family = \hA000 -> OpANNN(c)
          [] family = \hB000 -> OpBNNN(c)
          [] family = \hC000 -> OpCXNN(c, r)
          [] family = \hD000 -> OpDXYN(c)
          [] family = \hE000 -> FamilyE(c)
          [] family = \hF000 -> FamilyF(c)
          [] OTHER -> BadOpcode(c)

----------------------------------------------------------------------------
(* Chip8::update_timers                                                    *)

\* update_timers without its tests for zero: the u8 counters wrap
update_timersUnguarded(c) ==
    [c EXCEPT !.timer_delay = (@ - 1) % U8,
              !.make_sound = (c.timer_sound = 1),
              !.timer_sound = (@ - 1) % U8]

\* update_timers raising the signal while the sound timer runs (level)
update_timersLevel(c) ==
    LET c1 == IF c.timer_delay > 0
              THEN [c EXCEPT !.timer_delay = @ - 1] ELSE c
    IN  IF c1.timer_sound > 0
        THEN [c1 EXCEPT !.make_sound = TRUE, !.timer_sound = @ - 1]
        ELSE [c1 EXCEPT !.make_sound = FALSE]

update_timers(c) ==
    LET c1 == IF c.timer_delay > 0
              THEN [c EXCEPT !.timer_delay = @ - 1] ELSE c
        c2 == [c1 EXCEPT !.make_sound = FALSE]
    IN  IF c2.timer_sound > 0
        THEN [c2 EXCEPT !.make_sound = (c2.timer_sound = 1),
                        !.timer_sound = @ - 1]
        ELSE c2

----------------------------------------------------------------------------
(* Chip8::emulate_cycle: fetch, execute, update the timers; a panic in one *)
(* step ends the call there.                                               *)

\* emulate_cycle that updates the timers before it executes the instruction
emulate_cycleTickFirst(c, r) ==
    LET c1 == fetch_opcode(c)
    IN  IF c1.panic # "none" THEN c1
        ELSE execute_opcode(update_timers(c1), r)

emulate_cycle(c, r) ==
    LET c1 == fetch_opcode(c)
    IN  IF c1.panic # "none" THEN c1
        ELSE LET c2 == execute_opcode(c1, r)
             IN  IF c2.panic # "none" THEN c2 ELSE update_timers(c2)

\* The random numbers a cycle can draw: gen_range is called only by 0xCXNN.
Draws(c) ==
    LET c1 == fetch_opcode(c)
    IN  IF c1.panic = "none" /\ BitAnd(c1.opcode, \hF000) = \hC000
        THEN RandRange ELSE {0}

----------------------------------------------------------------------------
(* The operations. A panic ends the program: nothing runs after it.        *)

Init ==
    /\ draw_flag = Default.draw_flag
    /\ opcode = Default.opcode
    /\ memory = Default.memory
    /\ reg = Default.reg
    /\ index = Default.index
    /\ pc = Default.pc
    /\ graphics = Default.graphics
    /\ timer_delay = Default.timer_delay
    /\ timer_sound = Default.timer_sound
    /\ stack = Default.stack
    /\ sp = Default.sp
    /\ key = Default.key
    /\ make_sound = Default.make_sound
    /\ panic = Default.panic
    /\ overflow_checks \in BOOLEAN
    /\ cycles = 0
    /\ loads = 0
    /\ current_time = 0

\* chip.load(&game)
Load(game) ==
    /\ panic = "none"
    /\ Become(load(Self, game))
    /\ loads' = loads + 1
    /\ UNCHANGED <<overflow_checks, cycles, current_time>>

\* chip.emulate_cycle(), at most max_cycles times
EmulateCycle(max_cycles) ==
    /\ panic = "none"
    /\ cycles < max_cycles
    /\ \E r \in Draws(Self) : Become(emulate_cycle(Self, r))
    /\ cycles' = cycles + 1
    /\ UNCHANGED <<overflow_checks, loads, current_time>>

\* let one_frame = Duration::from_millis(1)
ONE_FRAME == 1

\* One turn of main's loop up to the end of chip.emulate_cycle(): the loop
\* sleeps until one_frame has passed since the previous turn began, notes
\* the time and runs one cycle. last_frame is the time the previous turn
\* took, in milliseconds.
Frame(last_frame, max_cycles) ==
    /\ panic = "none"
    /\ cycles < max_cycles
    /\ current_time' = current_time +
                         (IF last_frame < ONE_FRAME THEN ONE_FRAME ELSE last_frame)
    /\ \E r \in Draws(Self) : Become(emulate_cycle(Self, r))
    /\ cycles' = cycles + 1
    /\ UNCHANGED <<overflow_checks, loads>>

\* check_keys: the host stores the state of the keyboard in chip.key;
\* pressed is the set of the keys held down.
CheckKeys(pressed) ==
    /\ panic = "none"
    /\ key' = [k \in 0..(NKEYS - 1) |-> IF k \in pressed THEN 1 ELSE 0]
    /\ UNCHANGED <<draw_flag, opcode, memory, reg, index, pc, graphics,
                   timer_delay, timer_sound, stack, sp, make_sound, panic,
                   overflow_checks, cycles, loads, current_time>>

\* if chip.draw_flag { chip.draw_flag = false; .. }: the host consumes a frame
Render ==
    /\ panic = "none"
    /\ draw_flag
    /\ draw_flag' = FALSE
    /\ UNCHANGED <<opcode, memory, reg, index, pc, graphics, timer_delay,
                   timer_sound, stack, sp, key, make_sound, panic,
                   overflow_checks, cycles, loads, current_time>>

----------------------------------------------------------------------------
(* Programs. A program is the sequence of its opcodes; Bytes gives the     *)
(* image that is loaded, two bytes per opcode, most significant first.     *)

Bytes(ops) ==
    [i \in 1..(2 * Len(ops)) |->
        IF i % 2 = 1 THEN ops[(i + 1) \div 2] \div 256 ELSE ops[i \div 2] % 256]

----------------------------------------------------------------------------
(* Spec: the host loads one program into a fresh machine and then runs it, *)
(* as main does. Every program sets V0 and V1, starts both timers from     *)
(* them and then holds one opcode of the set Ops: every row of the         *)
(* instruction table and opcodes of no row.                                *)

MaxCycles == 6

PlainOps ==
    { \h00E0, \h6A2B, \h70FF, \h7F01,
      \h8010, \h8011, \h8012, \h8013, \h8014, \h8015, \h8016, \h8017, \h801E,
      \h8F14, \h80F5, \h8F06, \h8FFE,
      \hA123, \hC00F, \hD012, \hD10F,
      \hF007, \hF00A, \hF10A, \hF015, \hF118, \hF01E, \hF129,
      \hF033, \hF155, \hF165 }

ControlOps ==
    { \h00EE, \h1200, \h1208, \h1FFF, \h2300, \hB300, \hBFFF,
      \h3000, \h30FF, \h4000, \h5010, \h5000, \h9010, \h9000,
      \hE09E, \hE0A1, \hE19E }

UnknownOps ==
    { \h0000, \h00E1, \h00EF, \h0123, \h0FFF,
      \h5011, \h501F, \h9011, \h900F,
      \h8018, \h8019, \h801A, \h801B, \h801C, \h801D, \h801F,
      \hE000, \hE09F, \hE0A0, \hE1FF,
      \hF000, \hF008, \hF00B, \hF156, \hF066, \hFFFF }

Ops == PlainOps \cup ControlOps \cup UnknownOps

Roms ==
    { Bytes(<<\h6000 + a, \h6100 + b, \hF015, \hF118, op>>) :
        a \in {0, 2, 255}, b \in {0, 2, 200}, op \in Ops }

Keyboards == { {}, {15}, {14, 15}, {0, 3} }

\* let mut chip = Chip8::new(); .. chip.load(&game): main loads one program,
\* before the emulation loop.
LoadAtStart(game) == loads = 0 /\ cycles = 0 /\ Load(game)

Next ==
    \/ \E game \in Roms : LoadAtStart(game)
    \/ EmulateCycle(MaxCycles)
    \/ \E pressed \in Keyboards : CheckKeys(pressed)
    \/ Render

Spec == Init /\ [][Next]_vars

----------------------------------------------------------------------------
(* SpecStack: programs of calls and returns. The library lets load be      *)
(* called at any time, so the program may be replaced while it runs (at    *)
(* most MaxStackLoads loads).                                              *)
(*   CallChain: sixteen nested calls, each from its own address, and a     *)
(*              seventeenth at 0x220;                                      *)
(*   Returns:   00EE at every address of the chain;                        *)
(*   CallTwice: a subroutine at 0x206 called from 0x200 and from 0x202.    *)

MaxStackCycles == 34
MaxStackLoads == 2

CallChain == [i \in 1..17 |-> \h2000 + PROGRAM_START + (2 * i)]
Returns == [i \in 1..18 |-> \h00EE]
CallTwice == <<\h2206, \h2206, \h1204, \h6A07, \h00EE>>

StackRoms == { Bytes(CallChain), Bytes(Returns), Bytes(CallTwice) }

\* chip.load(&game), while fewer than max_loads loads were made
LoadAnytime(game, max_loads) == loads < max_loads /\ Load(game)

NextStack ==
    \/ \E game \in StackRoms : LoadAnytime(game, MaxStackLoads)
    \/ EmulateCycle(MaxStackCycles)
    \/ \E pressed \in {{}, {0}} : CheckKeys(pressed)
    \/ Render

SpecStack == Init /\ [][NextStack]_vars

----------------------------------------------------------------------------
(* SpecMem: programs that store to and read from memory around the end of  *)
(* the font set (0x04F), replaced at any time by at most MaxMemLoads       *)
(* loads.                                                                  *)

MaxMemCycles == 5
MaxMemLoads == 2

MemRoms ==
    { Bytes(<<\hA04F, \h60AB, \h61CD, \hF155>>),
      Bytes(<<\hA050, \h60AB, \h61CD, \hF155>>),
      Bytes(<<\hA04E, \h60FE, \h6100, \hF033>>),
      Bytes(<<\hA300, \h607B, \h6100, \hF033>>),
      Bytes(<<\hA000, \h6000, \h6100, \hF165>>),
      Bytes(<<\h6005, \hA04C, \hF033, \h1200>>),
      Bytes(<<\hAFFF, \h6001, \h6102, \hF155>>) }

NextMem ==
    \/ \E game \in MemRoms : LoadAnytime(game, MaxMemLoads)
    \/ EmulateCycle(MaxMemCycles)
    \/ \E pressed \in {{}, {0}} : CheckKeys(pressed)
    \/ Render

SpecMem == Init /\ [][NextMem]_vars

----------------------------------------------------------------------------
(* SpecDraw: programs that set index, reg[0], reg[1] and reg[F] and then   *)
(* draw twice. The sprite is read from the font set, from the program's    *)
(* own bytes or from the last two bytes of memory; the positions lie       *)
(* inside the screen, across its right and bottom edges, and outside it.   *)

MaxDrawCycles == 6

SpriteSources == { \h000, \h204, \hFFE }
Columns == { 0, 10, 60, 63, 64, 255 }
Lines == { 0, 5, 30, 32, 255 }
FirstDraws == { \hD015, \hD01F, \hD010, \hDF05, \hD105 }
SecondDraws == { \hD015, \hD012, \hD0F5, \hD01F }

DrawRoms ==
    { Bytes(<<\hA000 + i, \h6000 + x, \h6100 + y, \h6F01, d1, d2>>) :
        i \in SpriteSources, x \in Columns, y \in Lines,
        d1 \in FirstDraws, d2 \in SecondDraws }

NextDraw ==
    \/ \E game \in DrawRoms : LoadAtStart(game)
    \/ EmulateCycle(MaxDrawCycles)
    \/ \E pressed \in {{}, {0}} : CheckKeys(pressed)
    \/ Render

SpecDraw == Init /\ [][NextDraw]_vars

----------------------------------------------------------------------------
(* SpecSound: programs that set the sound timer to 0, 1, 2, 3 or 255 and   *)
(* then run on: into an unknown opcode (a fault), in a loop that never     *)
(* sets the timer again, or in a loop that sets it again.                  *)

MaxSoundCycles == 9

SoundRoms ==
    { Bytes(<<\h6000 + v, \hF018, \h7101, \h7101, last>>) :
        v \in {0, 1, 2, 3, 255}, last \in {\h7101, \hFFFF, \h1204, \h1202} }

NextSound ==
    \/ \E game \in SoundRoms : LoadAtStart(game)
    \/ EmulateCycle(MaxSoundCycles)
    \/ \E pressed \in {{}, {0}} : CheckKeys(pressed)
    \/ Render

SpecSound == Init /\ [][NextSound]_vars

----------------------------------------------------------------------------
(* SpecTiming: main's loop with its clock. A turn of the loop lasts at     *)
(* least one_frame (1 ms); the turns here last 1, 5, 17 or 40 ms. The      *)
(* programs set the delay and the sound timer and then loop.               *)

MaxTimingCycles == 6

FrameTimes == { 0, 5, 17, 40 }

TimingRoms ==
    { Bytes(<<\h6000 + v, \hF015, \h6100 + w, \hF118, \h7201, \h1208>>) :
        v \in {0, 1, 3, 255}, w \in {0, 2} }

NextTiming ==
    \/ \E game \in TimingRoms : LoadAtStart(game)
    \/ \E last_frame \in FrameTimes : Frame(last_frame, MaxTimingCycles)
    \/ \E pressed \in {{}, {0}} : CheckKeys(pressed)
    \/ Render

SpecTiming == Init /\ [][NextTiming]_vars

----------------------------------------------------------------------------
(* SpecAlu: programs that set reg[0], reg[1] and reg[F] and then execute   *)
(* one arithmetic, shift or compare instruction on them, with X and Y      *)
(* distinct, equal, or the flag register.                                  *)

MaxAluCycles == 4

AluOps ==
    { \h8014, \h8004, \h80F4, \h8F14, \h8104,
      \h8015, \h8005, \h80F5, \h8F15,
      \h8017, \h8007, \h80F7, \h8F17,
      \h8016, \h8006, \h80F6, \h8F16,
      \h801E, \h800E, \h80FE, \h8F1E,
      \h7001, \h7080, \h70FF, \h7F01, \h7FFF,
      \h3000, \h3002, \h30FF, \h4002, \h40FF, \h3F05, \h4F05,
      \h5010, \h5000, \h50F0, \h9010, \h9000, \h90F0 }

AluRoms ==
    { Bytes(<<\h6000 + a, \h6100 + b, \h6F00 + f, op>>) :
        a \in {0, 2, 128, 255}, b \in {0, 2, 128, 255},
        f \in {0, 1, 5}, op \in AluOps }

NextAlu ==
    \/ \E game \in AluRoms : LoadAtStart(game)
    \/ EmulateCycle(MaxAluCycles)
    \/ \E pressed \in {{}, {0}} : CheckKeys(pressed)
    \/ Render

SpecAlu == Init /\ [][NextAlu]_vars

----------------------------------------------------------------------------
(* SpecRand: programs that set reg[0] and then draw a random number under  *)
(* the masks 0xFF, 0x0F, 0x80 and 0x00.                                    *)

MaxRandCycles == 2

RandRoms ==
    { Bytes(<<\h6000 + a, op>>) :
        a \in {0, 255}, op \in {\hC0FF, \hC00F, \hC080, \hC000, \hCFFF} }

NextRand ==
    \/ \E game \in RandRoms : LoadAtStart(game)
    \/ EmulateCycle(MaxRandCycles)
    \/ \E pressed \in {{}, {0}} : CheckKeys(pressed)
    \/ Render

SpecRand == Init /\ [][NextRand]_vars

----------------------------------------------------------------------------
(* SpecKeys: programs that set reg[0] to a key index (or to 16 or 255,     *)
(* which is none) and test that key, under several states of the keypad.   *)

MaxKeysCycles == 2

KeysRoms ==
    { Bytes(<<\h6000 + k, op>>) :
        k \in (0..(NKEYS - 1)) \cup {16, 255}, op \in {\hE09E, \hE0A1} }

KeysKeyboards == { {}, {0}, {15}, {7, 8}, 0..(NKEYS - 1) }

NextKeys ==
    \/ \E game \in KeysRoms : LoadAtStart(game)
    \/ EmulateCycle(MaxKeysCycles)
    \/ \E pressed \in KeysKeyboards : CheckKeys(pressed)
    \/ Render

SpecKeys == Init /\ [][NextKeys]_vars

----------------------------------------------------------------------------
(* Programs that draw and clear the screen while the host renders: a draw  *)
(* of a glyph, of no row (N = 0) or from the last bytes of the memory,     *)
(* then 00E0 and the draw again; and a draw whose sprite runs over the end *)
(* of the memory after its first row.                                      *)

MaxScreenCycles == 6

ScreenDraws == {\hD015, \hD010, \hD01F}

ScreenRoms ==
    { Bytes(<<\hA000 + i, \h6000 + x, \h6100 + y, d, \h00E0, d>>) :
        i \in {0, \hFF0}, x \in {0, 60, 64}, y \in {0, 30},
        d \in ScreenDraws }
    \cup { Bytes(<<\h60FF, \hAFFE, \hF055, \h6000, \hD005>>) }

NextScreen ==
    \/ \E game \in ScreenRoms : LoadAtStart(game)
    \/ EmulateCycle(MaxScreenCycles)
    \/ \E pressed \in {{}, {0}} : CheckKeys(pressed)
    \/ Render

SpecScreen == Init /\ [][NextScreen]_vars

----------------------------------------------------------------------------
(* Images of every size around the capacity, loaded at the start and      *)
(* again over a machine that has run: short programs, the empty image,    *)
(* one that fills the memory to its last byte and two that are longer.    *)

MaxLoadCycles == 4
MaxLoadLoads == 2

\* The image of len bytes that starts with head, ends with tail and is 0
\* between them
Image(head, len, tail) ==
    [i \in 1..len |->
        IF i <= Len(head) THEN head[i]
        ELSE IF i > len - Len(tail) THEN tail[i - (len - Len(tail))]
        ELSE 0]

LoadRoms ==
    { <<>>,
      Bytes(<<\h6005, \hF015, \hA123, \h2208, \hD015>>),
      Bytes(<<\h61FF>>),
      Image(Bytes(<<\h6207, \hF218>>), NMEM - PROGRAM_START, <<\hAA>>),
      Image(Bytes(<<\h6309>>), (NMEM - PROGRAM_START) + 1, <<\hCC, \hBB>>),
      Image(Bytes(<<\h640B>>), (NMEM - PROGRAM_START) + 16, <<\hDD>>) }

NextLoad ==
    \/ \E game \in LoadRoms : LoadAnytime(game, MaxLoadLoads)
    \/ EmulateCycle(MaxLoadCycles)
    \/ \E pressed \in {{}, {0}} : CheckKeys(pressed)
    \/ Render

SpecLoad == Init /\ [][NextLoad]_vars

----------------------------------------------------------------------------
(* Programs that store registers to the memory and read them back: FX55,   *)
(* the registers overwritten, FX65 with the same X and the same index; and *)
(* FX33 of every byte value. The index points into the font, into the free *)
(* memory and at the last bytes of the memory.                             *)

MaxStoreCycles == 8

StoreAddresses == {\h04E, \h300, \hFF0, \hFFE}
StoreRegisters == {0, 1, 15}

StoreRoms ==
    { Bytes(<<\hA000 + i, \h6000 + a, \h6100 + b, \hF055 + (256 * x),
              \h60EE, \h6111, \hF065 + (256 * x), \h1200>>) :
        i \in StoreAddresses, a \in {0, \hAB}, b \in {0, \hCD},
        x \in StoreRegisters }

BcdAddresses == {\h300, \hFFD}

BcdRoms ==
    { Bytes(<<\hA000 + i, \h6000 + v, \h6100 + ((v + 1) % 256),
              \hF033 + (256 * x)>>) :
        i \in BcdAddresses, v \in 0..(U8 - 1), x \in {0, 1} }

NextStore ==
    \/ \E game \in StoreRoms \cup BcdRoms : LoadAtStart(game)
    \/ EmulateCycle(MaxStoreCycles)
    \/ \E pressed \in {{}, {0}} : CheckKeys(pressed)
    \/ Render

SpecStore == Init /\ [][NextStore]_vars

----------------------------------------------------------------------------
(* Programs that ask for the glyph of every byte value and draw it.        *)

MaxGlyphCycles == 3

GlyphRoms ==
    { Bytes(<<\h6000 + (256 * x) + v, \hF029 + (256 * x), \hD005>>) :
        v \in 0..(U8 - 1), x \in {0, 1} }

NextGlyph ==
    \/ \E game \in GlyphRoms : LoadAtStart(game)
    \/ EmulateCycle(MaxGlyphCycles)
    \/ \E pressed \in {{}, {0}} : CheckKeys(pressed)
    \/ Render

SpecGlyph == Init /\ [][NextGlyph]_vars

----------------------------------------------------------------------------
(* Programs that reach the end of the memory: jumps to the last byte and   *)
(* beyond it, an instruction stored in the last two bytes and run, the     *)
(* index two bytes before the end, the index beyond the end after one      *)
(* FX1E, and the index at 0xFFFF after 241 of them.                        *)

MaxBoundsCycles == 245

IndexedOps == {\hD005, \hD001, \hD000, \hF033, \hF255, \hF265, \hF055, \hF065}

\* AFFF, 60FF, F01E 240 times (index = 0xFFF + 240 * 255), 60F0, F01E
\* (index = 0xFFFF), last
LongWalk(last) ==
    [k \in 1..245 |->
        IF k = 1 THEN \hAFFF
        ELSE IF k = 2 THEN \h60FF
        ELSE IF k <= 242 THEN \hF01E
        ELSE IF k = 243 THEN \h60F0
        ELSE IF k = 244 THEN \hF01E
        ELSE last]

BoundsRoms ==
    { Bytes(<<\h1FFF>>), Bytes(<<\h1FFE>>), Bytes(<<\h60FF, \hBFFF>>),
      Bytes(<<\h6060, \h6100, \hAFFE, \hF155, \h1FFE>>) }
    \cup { Bytes(<<\hAFFE, \h60FF, op>>) : op \in IndexedOps }
    \cup { Bytes(<<\hAFFF, \h60FF, \hF01E, op>>) : op \in IndexedOps }
    \cup { Bytes(LongWalk(op)) : op \in {\hD005, \hD00F, \hF033, \hF065} }

NextBounds ==
    \/ \E game \in BoundsRoms : LoadAtStart(game)
    \/ EmulateCycle(MaxBoundsCycles)
    \/ \E pressed \in {{}, {0}} : CheckKeys(pressed)
    \/ Render

SpecBounds == Init /\ [][NextBounds]_vars

----------------------------------------------------------------------------
(* Programs that set both timers from a register and read the delay timer  *)
(* back twice, for values at and around 0, 1 and 255 and for X = F.        *)

MaxTimerCycles == 6

TimerValues == {0, 1, 2, 3, 255}

TimerRoms ==
    { Bytes(<<\h6000 + v, \h6100 + w, \hF015, \hF118, \hF207, \hF007>>) :
        v \in TimerValues, w \in TimerValues }
    \cup { Bytes(<<\h6F00 + v, \hFF15, \hFF18, \hFF07, \hFF07, \hFF15>>) :
             v \in TimerValues }

NextTimer ==
    \/ \E game \in TimerRoms : LoadAtStart(game)
    \/ EmulateCycle(MaxTimerCycles)
    \/ \E pressed \in {{}, {0}} : CheckKeys(pressed)
    \/ Render

SpecTimer == Init /\ [][NextTimer]_vars

----------------------------------------------------------------------------
(* What the claims speak of.                                               *)

\* The step is one call of emulate_cycle.
CycleStep == cycles' = cycles + 1

\* The instruction at PC: the two bytes there, most significant first.
Instr == (MemRead(memory, pc) * 256) + MemRead(memory, pc + 1)

\* The step is a call of emulate_cycle that fetches the instruction at PC.
Fetches == CycleStep /\ pc + 1 < NMEM

\* The step is a call of emulate_cycle that returns (does not fault).
Completes == CycleStep /\ panic' = "none"

Family(op) == op \div 4096
LowByte(op) == op % 256
LowNibble(op) == op % 16
FieldX(op) == (op \div 256) % 16
FieldY(op) == (op \div 16) % 16

\* The rows of the instruction table.
InTable(op) ==
    CASE Family(op) = 0 -> op \in {\h00E0, \h00EE}
      [] Family(op) \in {1, 2, 3, 4, 6, 7, 10, 11, 12, 13} -> TRUE
      [] Family(op) \in {5, 9} -> LowNibble(op) = 0
      [] Family(op) = 8 -> LowNibble(op) \in (0..7) \cup {14}
      [] Family(op) = 14 -> LowByte(op) \in {\h9E, \hA1}
      [] Family(op) = 15 ->
           LowByte(op) \in {\h07, \h0A, \h15, \h18, \h1E, \h29, \h33, \h55, \h65}

IsJump(op) == Family(op) \in {1, 11}
IsCall(op) == Family(op) = 2
IsReturn(op) == op = \h00EE
IsSkip(op) ==
    \/ Family(op) \in {3, 4}
    \/ Family(op) \in {5, 9} /\ LowNibble(op) = 0
    \/ Family(op) = 14 /\ LowByte(op) \in {\h9E, \hA1}
IsFX(op, low) == Family(op) = 15 /\ LowByte(op) = low

\* An instruction that does not redirect control flow.
IsPlain(op) ==
    InTable(op) /\ ~IsJump(op) /\ ~IsCall(op) /\ ~IsReturn(op) /\ ~IsSkip(op)

PressedKeys == { k \in 0..(NKEYS - 1) : key[k] # 0 }

Lowest(S) == CHOOSE k \in S : \A other \in S : k <= other

Max0(n) == IF n > 0 THEN n ELSE 0

----------------------------------------------------------------------------
(* C1, as stated: for every instruction other than jumps, call, return and *)
(* skips, an emulate_cycle that does not fault advances PC by exactly 2.   *)
(* It fails: FX0A leaves PC where it is while it finds no pressed key.     *)
PlainAdvancesPcAlways ==
    [][(Completes /\ IsPlain(Instr)) => pc' = pc + 2]_vars

(* C1, amended: for every instruction other than jumps, call, return,     *)
(* skips and the key wait FX0A, an emulate_cycle that does not fault       *)
(* advances PC by exactly 2, whatever the register, keypad and timer       *)
(* values are.                                                             *)
PlainAdvancesPc ==
    [][(Completes /\ IsPlain(Instr) /\ ~IsFX(Instr, \h0A)) =>
          pc' = pc + 2]_vars

\* C1, witness: the fifth instruction of a program, 8014 with V0 = 255 and
\* V1 = 200 and both timers running, has run and PC is past it.
PlainAdvancesPcWitness ==
    /\ panic = "none"
    /\ cycles = 5
    /\ opcode = \h8014
    /\ reg[0] = 199 /\ reg[15] = 1
    /\ timer_delay = 252 /\ timer_sound = 198
    /\ pc = PROGRAM_START + 10

----------------------------------------------------------------------------
(* C2: FX0A at PC leaves PC unchanged when none of the 16 keys is pressed; *)
(* when any key 0x0..0xF is pressed (also when only key 0xF is), PC        *)
(* advances by 2 and reg[X] is the lowest-numbered pressed key.            *)
WaitForKey ==
    [][(Fetches /\ IsFX(Instr, \h0A)) =>
         IF PressedKeys = {}
         THEN pc' = pc
         ELSE pc' = pc + 2 /\ reg'[FieldX(Instr)] = Lowest(PressedKeys)]_vars

----------------------------------------------------------------------------
(* C3: every opcode that matches no row of the instruction table makes     *)
(* emulate_cycle fault instead of executing an instruction.                *)
UnknownOpcodeFaults ==
    [][(Fetches /\ ~InTable(Instr)) =>
         /\ panic' = "bad_opcode"
         /\ pc' = pc /\ reg' = reg]_vars

----------------------------------------------------------------------------
(* C10, as stated: in every emulate_cycle that does not execute FX15 the   *)
(* delay timer afterwards is max(delay - 1, 0), and in every emulate_cycle *)
(* that does not execute FX18 the sound timer is max(sound - 1, 0). It     *)
(* fails: a cycle that faults ends before update_timers.                   *)
TimersTickAlways ==
    [][CycleStep =>
         /\ ~(Fetches /\ IsFX(Instr, \h15)) =>
               timer_delay' = Max0(timer_delay - 1)
         /\ ~(Fetches /\ IsFX(Instr, \h18)) =>
               timer_sound' = Max0(timer_sound - 1)]_vars

(* C10, amended: in every emulate_cycle that does not fault and does not   *)
(* execute FX15 the delay timer afterwards is max(delay - 1, 0), and in    *)
(* every emulate_cycle that does not fault and does not execute FX18 the   *)
(* sound timer is max(sound - 1, 0); so a timer at 0 stays 0 until FX15    *)
(* (FX18) sets it, and neither timer affects the other. No other operation *)
(* changes a timer.                                                        *)
TimersTick ==
    [][IF Completes
       THEN /\ ~IsFX(Instr, \h15) => timer_delay' = Max0(timer_delay - 1)
            /\ ~IsFX(Instr, \h18) => timer_sound' = Max0(timer_sound - 1)
       ELSE CycleStep \/ UNCHANGED <<timer_delay, timer_sound>>]_vars

\* C10, witness: the delay timer, set to 255 in the third cycle, and the
\* sound timer, set to 200 in the fourth, after the fifth cycle.
TimersTickWitness ==
    /\ panic = "none"
    /\ cycles = 5
    /\ ~IsFX(opcode, \h15) /\ ~IsFX(opcode, \h18)
    /\ timer_delay = 252
    /\ timer_sound = 198

----------------------------------------------------------------------------
(* C4: the stack pointer stays within 0..16: 2NNN with sp = 16 and 00EE    *)
(* with sp = 0 both end in a fault, without wrapping the stack pointer and *)
(* without touching a slot outside the 16-slot stack.                      *)
StackPointerNeverWraps ==
    [][Fetches =>
         /\ (IsCall(Instr) /\ sp = STACK_SIZE) =>
               panic' # "none" /\ sp' = sp /\ stack' = stack
         /\ (IsReturn(Instr) /\ sp = 0) =>
               panic' # "none" /\ sp' = sp /\ stack' = stack
         /\ sp' \in 0..STACK_SIZE]_vars

----------------------------------------------------------------------------
(* C5: calls and returns are LIFO. 2NNN at address A with sp = s < 16      *)
(* stores A in stack[s], sets sp = s + 1 and PC = NNN; 00EE with sp = s+1  *)
(* sets sp = s and PC = stack[s] + 2; and nothing else writes the stack or *)
(* the stack pointer, so the slot a return reads is the one its matching   *)
(* call wrote: each return resumes at its call's address plus 2, in        *)
(* reverse order of the calls, for any nesting up to 16.                   *)
CallReturnLifo ==
    [][/\ (Fetches /\ IsCall(Instr) /\ sp < STACK_SIZE) =>
            /\ panic' = "none"
            /\ stack' = [stack EXCEPT ![sp] = pc]
            /\ sp' = sp + 1
            /\ pc' = Instr % 4096
       /\ (Fetches /\ IsReturn(Instr) /\ sp \in 1..STACK_SIZE) =>
            /\ panic' = "none"
            /\ stack' = stack
            /\ sp' = sp - 1
            /\ pc' = stack[sp - 1] + 2
       /\ ~(Fetches /\ (IsCall(Instr) \/ IsReturn(Instr))) =>
            UNCHANGED <<stack, sp>>]_vars

\* C5, witness: sixteen nested calls, made from 0x200, 0x202, .., 0x21E,
\* have all returned; the last return resumed at 0x200 + 2.
CallReturnLifoWitness ==
    /\ panic = "none"
    /\ cycles = 2 * STACK_SIZE
    /\ opcode = \h00EE
    /\ sp = 0
    /\ \A s \in 0..(STACK_SIZE - 1) : stack[s] = PROGRAM_START + (2 * s)
    /\ pc = PROGRAM_START + 2

----------------------------------------------------------------------------
\* The addresses of the font set, and the font byte of each
FontArea == 0..(Len(FONTSET) - 1)
FontByte(a) == FONTSET[a + 1]

(* C6, as stated: in every reachable state the 80 bytes                    *)
(* memory[0x000..0x04F] equal the built-in font set.                       *)
FontIntact == \A a \in FontArea : MemRead(memory, a) = FontByte(a)

(* C6, amended: a byte of memory[0x000..0x04F] changes only in a cycle     *)
(* that executes FX33, and then lies in index..index+2, or FX55, and then  *)
(* lies in index..index+X; load and every other instruction leave the 80   *)
(* bytes as they were, so they equal the font set until such a store.      *)
FontChangesOnlyByStores ==
    [][\A a \in FontArea :
          MemRead(memory', a) # MemRead(memory, a) =>
             /\ Fetches
             /\ \/ IsFX(Instr, \h33) /\ a \in index..(index + 2)
                \/ IsFX(Instr, \h55) /\ a \in index..(index + FieldX(Instr))]_vars

\* C6, witness: F155 with index = 0x04F has stored reg[0] over the last
\* byte of the font set and reg[1] in the byte after it.
FontChangesOnlyByStoresWitness ==
    /\ panic = "none"
    /\ opcode = \hF155
    /\ index = \h4F
    /\ reg[0] = \hAB
    /\ MemRead(memory, \h4F) = \hAB
    /\ MemRead(memory, \h50) = \hCD
    /\ FontByte(\h4F) # \hAB
    /\ loads = 1

----------------------------------------------------------------------------
(* What the claims say of DXYN, in terms of the state before the draw.     *)

IsDraw(op) == Family(op) = 13

\* The sprite has a set bit for the pixel (px, py): bit 7 - (px - reg[X])
\* of the byte memory[index + (py - reg[Y])].
SpriteBit(px, py) ==
    LET col == px - reg[FieldX(Instr)]
        row == py - reg[FieldY(Instr)]
    IN  /\ col \in 0..7
        /\ row \in 0..(LowNibble(Instr) - 1)
        /\ (MemRead(memory, index + row) \div (2 ^ (7 - col))) % 2 = 1

\* The pixels of the screen under the sprite's rectangle
SpriteBox ==
    { (WIDTH * py) + px :
        px \in { u \in 0..(WIDTH - 1) :
                   reg[FieldX(Instr)] <= u /\ u < reg[FieldX(Instr)] + 8 },
        py \in { v \in 0..(HEIGHT - 1) :
                   reg[FieldY(Instr)] <= v
                   /\ v < reg[FieldY(Instr)] + LowNibble(Instr) } }

\* The pixels of the screen under the sprite's set bits
SpritePixels == { a \in SpriteBox : SpriteBit(a % WIDTH, a \div WIDTH) }

\* The pixels whose value differs between the two states of a step
ChangedPixels == (graphics \ graphics') \cup (graphics' \ graphics)

\* The machine in the second state of a step
SelfNext ==
    [draw_flag |-> draw_flag', opcode |-> opcode', memory |-> memory',
     reg |-> reg', index |-> index', pc |-> pc', graphics |-> graphics',
     timer_delay |-> timer_delay', timer_sound |-> timer_sound',
     stack |-> stack', sp |-> sp', key |-> key', make_sound |-> make_sound',
     panic |-> panic']

\* The machine after the step's DXYN (left in opcode) is executed once more
DrawAgain == OpDXYN(SelfNext)

----------------------------------------------------------------------------
(* C7: a DXYN executed a second time, with the same sprite bytes, index    *)
(* and position, restores the framebuffer to what it was before the first  *)
(* draw; if the pixels under the sprite's set bits were unlit before the   *)
(* first draw and at least one set bit is inside the screen, the second    *)
(* draw leaves reg[F] = 1.                                                 *)
DrawTwiceRestores ==
    [][(/\ Completes
        /\ IsDraw(Instr)
        /\ reg'[FieldX(Instr)] = reg[FieldX(Instr)]
        /\ reg'[FieldY(Instr)] = reg[FieldY(Instr)]) =>
          /\ DrawAgain.panic = "none"
          /\ DrawAgain.graphics = graphics
          /\ (SpritePixels # {} /\ SpritePixels \cap graphics = {}) =>
                DrawAgain.reg[15] = 1]_vars

\* C7, witness: D015 was executed at 0x208 and again at 0x20A, drawing the
\* glyph "0" at (60, 5) across the right edge; the screen is blank again
\* and reg[F] = 1.
DrawTwiceRestoresWitness ==
    /\ panic = "none"
    /\ cycles = 6
    /\ opcode = \hD015
    /\ MemRead(memory, \h208) = \hD0 /\ MemRead(memory, \h209) = \h15
    /\ index = 0 /\ reg[0] = 60 /\ reg[1] = 5
    /\ graphics = {}
    /\ reg[15] = 1

----------------------------------------------------------------------------
(* C8: after any DXYN, reg[F] = 1 if at least one pixel went from lit to   *)
(* unlit during the draw and reg[F] = 0 otherwise, whatever reg[F] was     *)
(* before; every pixel of the screen ends as its old value XOR the         *)
(* sprite's bit for it, the most significant bit being the leftmost.       *)
DrawXorsAndFlags ==
    [][(Completes /\ IsDraw(Instr)) =>
          /\ graphics' = (graphics \ SpritePixels) \cup (SpritePixels \ graphics)
          /\ reg'[15] = IF graphics \ graphics' # {} THEN 1 ELSE 0]_vars

\* C8, witness: D01F drew the glyphs "0", "1", "2" at (10, 5), then D015
\* drew the glyph "0" over them: its pixels went out (reg[F] = 1), those of
\* the glyph "1" stayed lit.
DrawXorsAndFlagsWitness ==
    /\ panic = "none"
    /\ cycles = 6
    /\ opcode = \hD015
    /\ MemRead(memory, \h209) = \h1F
    /\ index = 0 /\ reg[0] = 10 /\ reg[1] = 5
    /\ reg[15] = 1
    /\ ~PixelRead(graphics, (WIDTH * 5) + 10)
    /\ PixelRead(graphics, (WIDTH * 10) + 12)

----------------------------------------------------------------------------
(* C9: DXYN clips and never wraps: a pixel (px, py) it changes has         *)
(* reg[X] <= px < reg[X] + 8, reg[Y] <= py < reg[Y] + N, px < 64 and       *)
(* py < 32; every other pixel is unchanged.                                *)
DrawClips ==
    [][(Fetches /\ IsDraw(Instr)) =>
          \A a \in ChangedPixels :
             LET px == a % WIDTH
                 py == a \div WIDTH
             IN  /\ a \in 0..(NPIXELS - 1)
                 /\ reg[FieldX(Instr)] <= px /\ px < reg[FieldX(Instr)] + 8
                 /\ reg[FieldY(Instr)] <= py
                 /\ py < reg[FieldY(Instr)] + LowNibble(Instr)]_vars

\* C9, witness: the glyph "0" drawn at (60, 30) crosses the right and the
\* bottom edge; only its top-left 4 by 2 corner is on the screen.
DrawClipsWitness ==
    /\ panic = "none"
    /\ cycles = 5
    /\ opcode = \hD015
    /\ index = 0 /\ reg[0] = 60 /\ reg[1] = 30
    /\ graphics = { (WIDTH * 30) + 60, (WIDTH * 30) + 61, (WIDTH * 30) + 62,
                    (WIDTH * 30) + 63, (WIDTH * 31) + 60, (WIDTH * 31) + 63 }

----------------------------------------------------------------------------
\* The sound timer as the step's tick finds it: the value FX18 has just set,
\* or else the value before the step.
SoundBeforeTick ==
    IF IsFX(Instr, \h18) THEN reg[FieldX(Instr)] ELSE timer_sound

(* C11, as stated: after an emulate_cycle, make_sound is true if and only  *)
(* if the sound timer went from 1 to 0 in that step's tick, and false      *)
(* after every other step. It fails: a cycle that faults ends before       *)
(* update_timers and leaves make_sound as it was.                          *)
SoundOnEdgeAlways ==
    [][CycleStep =>
         make_sound' = (SoundBeforeTick = 1 /\ timer_sound' = 0)]_vars

(* C11, amended: after an emulate_cycle that does not fault, make_sound is *)
(* true if and only if the sound timer went from 1 to 0 in that step's     *)
(* tick, and false after every other such step (timer above 1, or already  *)
(* 0); make_sound is never true while the sound timer is greater than 0.   *)
SoundOnEdge ==
    [][/\ Completes =>
            /\ make_sound' = (SoundBeforeTick = 1)
            /\ SoundBeforeTick = 1 => timer_sound' = 0
       /\ make_sound' => timer_sound' = 0]_vars

\* C11, witness: F018 set the sound timer to 3 in the second cycle; the
\* fourth cycle's tick took it from 1 to 0 and raised the signal.
SoundOnEdgeWitness ==
    /\ panic = "none"
    /\ cycles = 4
    /\ reg[0] = 3
    /\ opcode = \h7101
    /\ timer_sound = 0
    /\ make_sound

----------------------------------------------------------------------------
\* The number of 60 Hz ticks in the first t milliseconds
TicksUntil(t) == (t * 60) \div 1000

(* C12: the timers are decremented once per 60 Hz tick and not once per    *)
(* emulate_cycle: a cycle that runs in the same sixtieth of a second as    *)
(* the cycle before it (no tick lies between them) does not decrement a    *)
(* timer, so n > 1 cycles between two consecutive ticks decrement a        *)
(* nonzero timer by 1 and not by n.                                        *)
TimersTickAtSixtyHertz ==
    [][(Completes /\ TicksUntil(current_time') = TicksUntil(current_time)) =>
         /\ ~IsFX(Instr, \h15) => timer_delay' = timer_delay
         /\ ~IsFX(Instr, \h18) => timer_sound' = timer_sound]_vars

----------------------------------------------------------------------------
Is8XY(op, low) == Family(op) = 8 /\ LowNibble(op) = low

\* The registers other than those in S are left as they were
OtherRegsKept(S) == \A i \in (0..(NREG - 1)) \ S : reg'[i] = reg[i]

(* C13: for every X # F and every Y (Y = X and Y = F too), after 8XY4      *)
(* reg[X] = (old reg[X] + old reg[Y]) mod 256 and reg[F] = 1 if            *)
(* old reg[X] + old reg[Y] > 255, else 0.                                  *)
AddWithCarry ==
    [][(Completes /\ Is8XY(Instr, 4) /\ FieldX(Instr) # 15) =>
         /\ reg'[FieldX(Instr)] =
               (reg[FieldX(Instr)] + reg[FieldY(Instr)]) % 256
         /\ reg'[15] =
               IF reg[FieldX(Instr)] + reg[FieldY(Instr)] > 255 THEN 1 ELSE 0]_vars

----------------------------------------------------------------------------
(* C14: for every X # F and every Y (Y = F too) the subtractions use the   *)
(* operands held before the instruction: after 8XY5                        *)
(* reg[X] = (old reg[X] - old reg[Y]) mod 256 and reg[F] = 0 if            *)
(* old reg[Y] > old reg[X], else 1; after 8XY7                             *)
(* reg[X] = (old reg[Y] - old reg[X]) mod 256 and reg[F] = 0 if            *)
(* old reg[X] > old reg[Y], else 1.                                        *)
SubtractWithBorrow ==
    [][(Completes /\ FieldX(Instr) # 15) =>
         /\ Is8XY(Instr, 5) =>
              /\ reg'[FieldX(Instr)] =
                    (reg[FieldX(Instr)] - reg[FieldY(Instr)]) % 256
              /\ reg'[15] =
                    IF reg[FieldY(Instr)] > reg[FieldX(Instr)] THEN 0 ELSE 1
         /\ Is8XY(Instr, 7) =>
              /\ reg'[FieldX(Instr)] =
                    (reg[FieldY(Instr)] - reg[FieldX(Instr)]) % 256
              /\ reg'[15] =
                    IF reg[FieldX(Instr)] > reg[FieldY(Instr)] THEN 0 ELSE 1]_vars

----------------------------------------------------------------------------
(* C15: for every X # F the shifts put the shifted-out bit in reg[F] and   *)
(* lose nothing else: after 8XY6, old reg[X] = 2 * new reg[X] + reg[F];    *)
(* after 8XYE, 2 * old reg[X] = 256 * reg[F] + new reg[X]; reg[F] is 0 or  *)
(* 1. The Y field is ignored: the result is a function of old reg[X]       *)
(* alone, and every register other than reg[X] and reg[F] is left as it    *)
(* was.                                                                    *)
ShiftsKeepBits ==
    [][(Fetches /\ FieldX(Instr) # 15
               /\ (Is8XY(Instr, 6) \/ Is8XY(Instr, 14))) =>
         /\ panic' = "none"
         /\ reg'[15] \in {0, 1}
         /\ reg'[FieldX(Instr)] \in 0..255
         /\ Is8XY(Instr, 6) =>
               reg[FieldX(Instr)] = (2 * reg'[FieldX(Instr)]) + reg'[15]
         /\ Is8XY(Instr, 14) =>
               2 * reg[FieldX(Instr)] = (256 * reg'[15]) + reg'[FieldX(Instr)]
         /\ OtherRegsKept({FieldX(Instr), 15})]_vars

\* C15, witness: 8016 has shifted reg[0] = 255 right (127, bit 1 out) with
\* reg[1] = 2 left alone.
ShiftsKeepBitsWitness ==
    /\ panic = "none"
    /\ cycles = 4
    /\ opcode = \h8016
    /\ reg[0] = 127
    /\ reg[15] = 1
    /\ reg[1] = 2
    /\ MemRead(memory, \h205) = 0
----------------------------------------------------------------------------
\* The register-comparison skips, and the condition each one tests
IsCompareSkip(op) ==
    Family(op) \in {3, 4} \/ (Family(op) \in {5, 9} /\ LowNibble(op) = 0)

SkipCondition(op) ==
    CASE Family(op) = 3 -> reg[FieldX(op)] = LowByte(op)
      [] Family(op) = 4 -> reg[FieldX(op)] # LowByte(op)
      [] Family(op) = 5 -> reg[FieldX(op)] = reg[FieldY(op)]
      [] Family(op) = 9 -> reg[FieldX(op)] # reg[FieldY(op)]

\* The skip with the same fields and the opposite test
Opposite(op) ==
    CASE Family(op) = 3 -> op + \h1000
      [] Family(op) = 4 -> op - \h1000
      [] Family(op) = 5 -> op + \h4000
      [] Family(op) = 9 -> op - \h4000

\* Executed in this state, op leaves PC four past the instruction
Skips(op) == execute_opcode([Self EXCEPT !.opcode = op], 0).pc = pc + 4

(* C17: each register-comparison skip advances PC by 4 when its condition  *)
(* holds and by 2 otherwise, and changes no register: 3XNN skips iff       *)
(* reg[X] = NN, 4XNN iff reg[X] # NN, 5XY0 iff reg[X] = reg[Y], 9XY0 iff   *)
(* reg[X] # reg[Y]; in the same state exactly one of the instruction and   *)
(* its opposite (3XNN/4XNN, 5XY0/9XY0) skips.                              *)
CompareSkips ==
    [][(Fetches /\ IsCompareSkip(Instr)) =>
         /\ panic' = "none"
         /\ pc' = pc + (IF SkipCondition(Instr) THEN 4 ELSE 2)
         /\ reg' = reg
         /\ Skips(Instr) # Skips(Opposite(Instr))]_vars

\* C17, witness: 4002 with reg[0] = 2 has not skipped (PC is 2 past it,
\* at 0x208), the registers are as the program set them.
CompareSkipsWitness ==
    /\ panic = "none"
    /\ cycles = 4
    /\ opcode = \h4002
    /\ reg[0] = 2 /\ reg[1] = 128 /\ reg[15] = 5
    /\ pc = PROGRAM_START + 8
----------------------------------------------------------------------------
(* C20: after 7XNN, reg[X] = (old reg[X] + NN) mod 256 for every reg[X]    *)
(* and NN, and no other register changes: for X # F the flag reg[F] is     *)
(* left as it was even when the addition wraps.                            *)
AddImmediate ==
    [][(Fetches /\ Family(Instr) = 7) =>
         /\ panic' = "none"
         /\ reg'[FieldX(Instr)] = (reg[FieldX(Instr)] + LowByte(Instr)) % 256
         /\ OtherRegsKept({FieldX(Instr)})]_vars

\* C20, witness: 70FF has added 255 to reg[0] = 255 (254 after the wrap)
\* and reg[F] is still 0.
AddImmediateWitness ==
    /\ panic = "none"
    /\ cycles = 4
    /\ opcode = \h70FF
    /\ reg[0] = 254
    /\ reg[15] = 0
    /\ MemRead(memory, \h201) = 255

----------------------------------------------------------------------------
\* The values reg[X] can hold after the CXNN at PC, over every number the
\* generator can return
RandomResults ==
    { emulate_cycle(Self, r).reg[FieldX(Instr)] : r \in Draws(Self) }

(* C16: after CXNN, reg[X] = NN AND r for some byte r, and every r in      *)
(* 0..255 is a possible choice: the set of the possible results is exactly *)
(* { NN AND r : r in 0..255 }, so with NN = 0xFF the result 0xFF is        *)
(* possible.                                                               *)
RandomByteAnyValue ==
    (panic = "none" /\ pc + 1 < NMEM /\ Family(Instr) = 12) =>
        RandomResults = { BitAnd(LowByte(Instr), r) : r \in 0..255 }
----------------------------------------------------------------------------
IsKeySkip(op) == Family(op) = 14 /\ LowByte(op) \in {\h9E, \hA1}

\* EXA1 for EX9E and EX9E for EXA1, with the same X
OppositeKeySkip(op) == IF LowByte(op) = \h9E THEN op + 3 ELSE op - 3

(* C18: for every key index reg[X] in 0..15 and every keypad state, EX9E   *)
(* advances PC by 4 if key reg[X] is pressed and by 2 otherwise, EXA1 by 4 *)
(* if it is not pressed and by 2 otherwise, so exactly one of the two      *)
(* skips in a given state; neither writes the keypad or a register.        *)
KeySkips ==
    [][(Fetches /\ IsKeySkip(Instr) /\ reg[FieldX(Instr)] \in 0..15) =>
         /\ panic' = "none"
         /\ pc' = pc + (IF (key[reg[FieldX(Instr)]] # 0) = (LowByte(Instr) = \h9E)
                        THEN 4 ELSE 2)
         /\ key' = key
         /\ reg' = reg
         /\ Skips(Instr) # Skips(OppositeKeySkip(Instr))]_vars

\* C18, witness: E09E with reg[0] = 15 and key 0xF pressed has skipped: PC
\* is 4 past the instruction at 0x202.
KeySkipsWitness ==
    /\ panic = "none"
    /\ cycles = 2
    /\ opcode = \hE09E
    /\ reg[0] = 15
    /\ PressedKeys = {15}
    /\ pc = PROGRAM_START + 6
----------------------------------------------------------------------------
(* C19: a jump sets PC to exactly its target, no 2 added: after 1NNN,      *)
(* PC = NNN; after BNNN, PC = NNN + reg[0]; registers, index, stack, sp,   *)
(* memory and framebuffer are unchanged.                                   *)
JumpsToTarget ==
    [][(Fetches /\ IsJump(Instr)) =>
         /\ panic' = "none"
         /\ pc' = IF Family(Instr) = 1 THEN Instr % 4096
                  ELSE (Instr % 4096) + reg[0]
         /\ UNCHANGED <<reg, index, stack, sp, memory, graphics>>]_vars

\* C19, witness: BFFF with reg[0] = 255 has set PC to 0xFFF + 255.
JumpsToTargetWitness ==
    /\ panic = "none"
    /\ cycles = 5
    /\ opcode = \hBFFF
    /\ reg[0] = 255
    /\ pc = \hFFF + 255
    /\ sp = 0

----------------------------------------------------------------------------
(* C21: after 00E0 every one of the 64 x 32 pixels is unlit and the redraw *)
(* flag is set, whatever the framebuffer held before; the registers        *)
(* (reg[F] included), the index, the memory and the stack are unchanged.   *)
ClearScreen ==
    [][(Fetches /\ Instr = \h00E0) =>
          /\ panic' = "none"
          /\ \A a \in 0..(NPIXELS - 1) : ~PixelRead(graphics', a)
          /\ draw_flag'
          /\ UNCHANGED <<reg, index, memory, stack, sp>>]_vars

\* C21, witness: D015 drew the glyph "0" at (0, 0), the host rendered the
\* frame and cleared the redraw flag, then 00E0 cleared the screen and the
\* sixth cycle has not yet drawn again.
ClearScreenWitness ==
    /\ panic = "none"
    /\ cycles = 5
    /\ opcode = \h00E0
    /\ MemRead(memory, \h207) = \h15
    /\ index = 0 /\ reg[0] = 0 /\ reg[1] = 0
    /\ reg[15] = 0
    /\ graphics = {}
    /\ draw_flag

----------------------------------------------------------------------------
(* C22: the engine only raises the redraw flag and never clears it: no     *)
(* emulate_cycle changes draw_flag from true to false; whenever a step     *)
(* changes any pixel, draw_flag is true after it; DXYN sets it even when   *)
(* it changes no pixel; only the host sets it back to false.               *)

\* The step is one of the host's: the engine's state, draw_flag apart, is
\* as before and neither load nor emulate_cycle was called.
HostStep ==
    /\ cycles' = cycles
    /\ loads' = loads
    /\ UNCHANGED <<opcode, memory, reg, index, pc, graphics, timer_delay,
                   timer_sound, stack, sp, make_sound, panic>>

RedrawFlagOnlyRaisedAlways ==
    [][/\ CycleStep => (draw_flag => draw_flag')
       /\ (CycleStep /\ graphics' # graphics) => draw_flag'
       /\ (Completes /\ IsDraw(Instr)) => draw_flag'
       /\ (draw_flag /\ ~draw_flag') => HostStep]_vars

(* C22 as the code has it: a step that does not fault and changes a pixel  *)
(* leaves draw_flag true; the rest as stated. (A DXYN that faults on a     *)
(* row beyond the memory keeps the rows drawn before and does not reach    *)
(* the assignment of the flag.)                                            *)
RedrawFlagOnlyRaised ==
    [][/\ CycleStep => (draw_flag => draw_flag')
       /\ (Completes /\ graphics' # graphics) => draw_flag'
       /\ (Completes /\ IsDraw(Instr)) => draw_flag'
       /\ (draw_flag /\ ~draw_flag') => HostStep]_vars

\* C22, witness: the host rendered and cleared the flag, then D010 (a
\* sprite of no row) changed no pixel and raised the flag again.
RedrawFlagOnlyRaisedWitness ==
    /\ panic = "none"
    /\ cycles = 6
    /\ opcode = \hD010
    /\ MemRead(memory, \h208) = 0 /\ MemRead(memory, \h209) = \hE0
    /\ graphics = {}
    /\ draw_flag

----------------------------------------------------------------------------
(* C23: load(bytes) with bytes of length at most 3584 sets                 *)
(* memory[0x200 + i] = bytes[i] for every i and leaves everything else     *)
(* unchanged: the other memory bytes, the registers, the index, PC, the    *)
(* stack, sp, both timers, the keypad, the framebuffer and both flags.     *)

\* The number of bytes of the memory from 0x200 on
Capacity == NMEM - PROGRAM_START

\* The step is a call of load with the image game
LoadStep(game) == loads' = loads + 1 /\ SelfNext = load(Self, game)

LoadCopiesImage ==
    [][\A game \in LoadRoms :
          (LoadStep(game) /\ Len(game) <= Capacity) =>
             /\ panic' = "none"
             /\ \A i \in 0..(Len(game) - 1) :
                   MemRead(memory', PROGRAM_START + i) = game[i + 1]
             /\ \A a \in DOMAIN memory \cup DOMAIN memory' :
                   (a < PROGRAM_START \/ a >= PROGRAM_START + Len(game)) =>
                       MemRead(memory', a) = MemRead(memory, a)
             /\ UNCHANGED <<opcode, reg, index, pc, stack, sp, timer_delay,
                            timer_sound, key, graphics, draw_flag,
                            make_sound>>]_vars

\* C23, witness: the short program ran four cycles (registers, index, PC,
\* stack, delay timer and screen changed), then the image of 3584 bytes was
\* loaded over it: its first and its last byte are in the memory, the byte
\* 0x208 of the old program is overwritten with 0, the rest is as it was.
LoadCopiesImageWitness ==
    /\ panic = "none"
    /\ loads = 2 /\ cycles = 4
    /\ MemRead(memory, \h200) = \h62 /\ MemRead(memory, \hFFF) = \hAA
    /\ MemRead(memory, \h208) = 0
    /\ reg[0] = 5 /\ index = \h123 /\ pc = \h208 /\ sp = 1
    /\ timer_delay = 2

----------------------------------------------------------------------------
(* C24: load(bytes) with bytes longer than 3584 fails: it neither writes   *)
(* outside the 4096-byte memory nor truncates the image silently and       *)
(* reports success.                                                         *)
LoadRejectsLongImage ==
    [][\A game \in LoadRoms :
          (LoadStep(game) /\ Len(game) > Capacity) =>
             /\ panic' # "none"
             /\ DOMAIN memory' \subseteq 0..(NMEM - 1)
             /\ \A a \in DOMAIN memory \cup DOMAIN memory' :
                   a < PROGRAM_START =>
                       MemRead(memory', a) = MemRead(memory, a)]_vars

\* C24, witness: the image of 3585 bytes was loaded over the image of 3584
\* bytes: load has panicked after it wrote the byte 0xCC to the last
\* address, 0xFFF, over the old 0xAA.
LoadRejectsLongImageWitness ==
    /\ panic = "index_out_of_bounds"
    /\ loads = 2
    /\ MemRead(memory, \h200) = \h63
    /\ MemRead(memory, \hFFF) = \hCC

----------------------------------------------------------------------------
(* C25: FX55 followed by FX65 with the same X and the same index           *)
(* (index + X < 4096) restores reg[0..=X] to the values they had at the    *)
(* FX55, even if those registers were changed in between; both leave the   *)
(* index unchanged; FX55 writes only memory[index..index+X] and FX65       *)
(* writes only reg[0..=X].                                                 *)

\* The memory bytes outside the addresses in S are left as they were
OtherMemoryKept(S) ==
    \A a \in (DOMAIN memory \cup DOMAIN memory') \ S :
        MemRead(memory', a) = MemRead(memory, a)

\* Register files the program may leave between the FX55 and the FX65
Clobbers == { [i \in 0..(NREG - 1) |-> v] : v \in {0, \hEE} }

\* The machine after the FX65 that matches the step's FX55, executed on
\* the step's second state with the registers replaced by clobber
FillAfterStore(clobber) ==
    execute_opcode([SelfNext EXCEPT !.opcode = Instr + \h10, !.reg = clobber], 0)

RegsRoundTrip ==
    [][/\ (Fetches /\ IsFX(Instr, \h55) /\ index + FieldX(Instr) < NMEM) =>
             /\ panic' = "none"
             /\ index' = index
             /\ reg' = reg
             /\ \A i \in 0..FieldX(Instr) :
                   MemRead(memory', index + i) = reg[i]
             /\ OtherMemoryKept(index..(index + FieldX(Instr)))
             /\ \A clobber \in Clobbers :
                   /\ FillAfterStore(clobber).panic = "none"
                   /\ \A i \in 0..FieldX(Instr) :
                         FillAfterStore(clobber).reg[i] = reg[i]
       /\ (Fetches /\ IsFX(Instr, \h65) /\ index + FieldX(Instr) < NMEM) =>
             /\ panic' = "none"
             /\ index' = index
             /\ memory' = memory
             /\ \A i \in 0..FieldX(Instr) :
                   reg'[i] = MemRead(memory, index + i)
             /\ OtherRegsKept(0..FieldX(Instr))]_vars

\* C25, witness: F155 stored reg[0] = 0xAB and reg[1] = 0xCD at 0x300, the
\* program set them to 0xEE and 0x11, and F165 has read them back.
RegsRoundTripWitness ==
    /\ panic = "none"
    /\ cycles = 7
    /\ opcode = \hF165
    /\ MemRead(memory, \h207) = \h55
    /\ MemRead(memory, \h209) = \hEE /\ MemRead(memory, \h20B) = \h11
    /\ index = \h300
    /\ reg[0] = \hAB /\ reg[1] = \hCD

----------------------------------------------------------------------------
(* C26: after FX33 with index + 2 < 4096, for every value v of reg[X], the *)
(* bytes h, t, u at memory[index], memory[index+1], memory[index+2] have   *)
(* 100h + 10t + u = v with h in 0..2 and t, u in 0..9; no other memory     *)
(* byte and no register changes.                                           *)
BcdDigits ==
    [][(Fetches /\ IsFX(Instr, \h33) /\ index + 2 < NMEM) =>
          LET v == reg[FieldX(Instr)]
              h == MemRead(memory', index)
              t == MemRead(memory', index + 1)
              u == MemRead(memory', index + 2)
          IN  /\ panic' = "none"
              /\ (100 * h) + (10 * t) + u = v
              /\ h \in 0..2 /\ t \in 0..9 /\ u \in 0..9
              /\ OtherMemoryKept(index..(index + 2))
              /\ reg' = reg]_vars

\* C26, witness: F033 with reg[0] = 255 and index = 0xFFD wrote 2, 5, 5
\* to the last three bytes of the memory.
BcdDigitsWitness ==
    /\ panic = "none"
    /\ cycles = 4
    /\ opcode = \hF033
    /\ reg[0] = 255
    /\ index = \hFFD
    /\ MemRead(memory, \hFFD) = 2
    /\ MemRead(memory, \hFFE) = 5
    /\ MemRead(memory, \hFFF) = 5

----------------------------------------------------------------------------
(* C27: after FX29 the index is the address of the glyph for the low hex   *)
(* digit of reg[X]: for every reg[X] in 0..255, on a machine whose font is *)
(* intact, the five bytes memory[index..index+4] are the glyph of the      *)
(* digit (reg[X] mod 16), and the index stays inside 0x000..0x04F.         *)
GlyphOfLowDigit ==
    [][(Completes /\ IsFX(Instr, \h29) /\ FontIntact) =>
          /\ index' \in FontArea
          /\ \A k \in 0..4 :
                MemRead(memory', index' + k) =
                    FontByte((5 * (reg[FieldX(Instr)] % 16)) + k)]_vars

----------------------------------------------------------------------------
(* C28: every memory access that would use an address >= 4096 ends in a    *)
(* fault and never wraps to low memory or touches another location: the    *)
(* opcode fetch when PC >= 0xFFF, and DXYN, FX33, FX55 and FX65 when the   *)
(* index plus their offset reaches 4096 (the index can exceed 0xFFF after  *)
(* FX1E).                                                                  *)

\* The last address the instruction at PC reads or writes through the index
LastAddress ==
    CASE IsDraw(Instr) -> index + (LowNibble(Instr) - 1)
      [] IsFX(Instr, \h33) -> index + 2
      [] IsFX(Instr, \h55) \/ IsFX(Instr, \h65) -> index + FieldX(Instr)

\* The instruction at PC uses the index to address the memory
UsesIndex ==
    \/ IsDraw(Instr) /\ LowNibble(Instr) >= 1
    \/ IsFX(Instr, \h33) \/ IsFX(Instr, \h55) \/ IsFX(Instr, \h65)

MemoryAccessFaults ==
    [][/\ (CycleStep /\ pc + 1 >= NMEM) =>
             /\ panic' # "none"
             /\ memory' = memory
       /\ (Fetches /\ UsesIndex /\ LastAddress >= NMEM) =>
             /\ panic' # "none"
             /\ DOMAIN memory' \subseteq 0..(NMEM - 1)
             /\ OtherMemoryKept(index..(NMEM - 1))]_vars

----------------------------------------------------------------------------
(* C29: while the instruction at PC is FX0A and no key is pressed, any     *)
(* number of emulate_cycle steps executes no other instruction: PC, the    *)
(* registers, the index, the memory, the stack, sp, the framebuffer and    *)
(* the redraw flag are unchanged (so the instruction at PC is FX0A again); *)
(* only the timers and the sound signal may change.                        *)
KeyWaitHolds ==
    [][(Fetches /\ IsFX(Instr, \h0A) /\ PressedKeys = {}) =>
          /\ panic' = "none"
          /\ UNCHANGED <<pc, reg, index, memory, stack, sp, graphics,
                         draw_flag, key>>
          /\ opcode' = Instr]_vars

\* C29, witness: F00A was fetched in the fifth and again in the sixth cycle
\* with no key pressed: PC is still at it, the delay timer set to 255 in
\* the third cycle went on counting down to 251.
KeyWaitHoldsWitness ==
    /\ panic = "none"
    /\ cycles = 6
    /\ opcode = \hF00A
    /\ pc = PROGRAM_START + 8
    /\ PressedKeys = {}
    /\ reg[0] = 255
    /\ timer_delay = 251

----------------------------------------------------------------------------
(* C30: when emulate_cycle faults on an undecodable opcode, the fault      *)
(* identifies both the opcode and the PC it was fetched from, and the      *)
(* faulting step has no other effect: PC, the registers, the index, the    *)
(* memory, the stack, sp, the framebuffer, the flags and both timers are   *)
(* as before (the timers do not tick).                                     *)
BadOpcodeReport ==
    [][(CycleStep /\ panic' = "bad_opcode") =>
          /\ UNCHANGED <<pc, reg, index, memory, stack, sp, graphics,
                         draw_flag, make_sound, timer_delay, timer_sound>>
          /\ BadOpcodeMessage(SelfNext).opcode = Instr
          /\ "pc" \in DOMAIN BadOpcodeMessage(SelfNext)
          /\ BadOpcodeMessage(SelfNext).pc = pc]_vars

----------------------------------------------------------------------------
(* C31: within one step the timer tick runs after the instruction's        *)
(* effect: after a step that executes FX15 (FX18) with reg[X] = v, the     *)
(* delay (sound) timer equals v - 1 when v > 0 and 0 when v = 0, so FX18   *)
(* with reg[X] = 1 raises make_sound in that same step; and FX07 stores in *)
(* reg[X] the delay value held before its own step's tick.                 *)
TickAfterEffect ==
    [][/\ (Fetches /\ IsFX(Instr, \h15)) =>
             /\ panic' = "none"
             /\ timer_delay' = IF reg[FieldX(Instr)] > 0
                               THEN reg[FieldX(Instr)] - 1 ELSE 0
       /\ (Fetches /\ IsFX(Instr, \h18)) =>
             /\ panic' = "none"
             /\ timer_sound' = IF reg[FieldX(Instr)] > 0
                               THEN reg[FieldX(Instr)] - 1 ELSE 0
             /\ make_sound' = (reg[FieldX(Instr)] = 1)
       /\ (Fetches /\ IsFX(Instr, \h07)) =>
             /\ panic' = "none"
             /\ reg'[FieldX(Instr)] = timer_delay
             /\ timer_delay' = IF timer_delay > 0
                               THEN timer_delay - 1 ELSE 0]_vars

\* C31, witness: F015 with reg[0] = 3 left the delay timer at 2, F118 with
\* reg[1] = 1 left the sound timer at 0 and raised the signal in its own
\* step (the delay timer went to 1), and F207 has stored that 1 in reg[2]
\* before its tick took the timer to 0.
TickAfterEffectWitness ==
    /\ panic = "none"
    /\ cycles = 5
    /\ opcode = \hF207
    /\ reg[0] = 3 /\ reg[1] = 1
    /\ reg[2] = 1
    /\ timer_delay = 0
    /\ timer_sound = 0
    /\ ~make_sound

====
